---- MODULE Spec2Model ----
(***************************************************************************)
(* Model of generate.py: a transcript is read, a first remote interaction  *)
(* returns a first-level outline, a second interaction is executed once    *)
(* per outline item on a thread pool, the sections are re-ordered, a Word  *)
(* document is written and converted to PDF.                               *)
(*                                                                         *)
(* Python values are tagged records: [t |-> "dict", v |-> <record>],       *)
(* [t |-> "list", v |-> <sequence>], [t |-> "str", v |-> <tokens>] and     *)
(* [t |-> "null"].  A string is the sequence of the pieces it is           *)
(* concatenated from.                                                      *)
(***************************************************************************)
EXTENDS Integers, Sequences, FiniteSets, TLC

\* ------------------------------------------------------------------ bounds
MaxOutline == 3
MaxWorkers == 2

\* ------------------------------------------------------- program constants
HTTP_OK == 200
ExpectedArgc == 5

\* ------------------------------------------------------------ JSON values
JNull == [t |-> "null"]
JList(s) == [t |-> "list", v |-> s]
JDict(f) == [t |-> "dict", v |-> f]
JStr(s) == [t |-> "str", v |-> s]
EmptyDict == JDict(<<>>)
EmptyList == JList(<<>>)

\* dict.get(k, default)
Get(d, k, default) == IF k \in DOMAIN d.v THEN d.v[k] ELSE default
\* only a dict has .get; on anything else Python raises AttributeError
HasGet(x) == x.t = "dict"
\* variant: tests "is not None" instead of truthiness
Truthy_NotNone(x) == x.t # "null"

\* Python truthiness of the values that occur as a first-level outline
Truthy(x) == IF x.t = "null" THEN FALSE
             ELSE IF x.t = "list" THEN Len(x.v) > 0
             ELSE IF x.t = "dict" THEN DOMAIN x.v # {}
             ELSE Len(x.v) > 0

\* --------------------------------------------------------------- inputs
Titles == {"A", "B"}
Outlines == UNION {[1..n -> Titles] : n \in 0..MaxOutline}
ArgCounts == {ExpectedArgc - 1, ExpectedArgc}
StatusText(s) == IF s = HTTP_OK THEN "200" ELSE "500"

Point(p) == JDict([point |-> JStr(<<p>>)])
Subsection(t, p) == JDict([title |-> JStr(<<t>>), content |-> JList(<<Point(p)>>)])
Sub1 == JList(<<Subsection("s1", "p1")>>)

\* what requests.post can produce: a response, or an exception
Resp(status, valid, body, text) ==
  [kind |-> "response", status_code |-> status, valid_json |-> valid,
   body |-> body, text |-> text, class |-> "-"]
Exc(class, text) ==
  [kind |-> "exception", status_code |-> 0, valid_json |-> FALSE,
   body |-> JNull, text |-> text, class |-> class]

Failures ==
  { Resp(500, TRUE, JNull, "oops"),
    Resp(HTTP_OK, FALSE, JNull, "<html>"),
    Exc("Timeout", "read timed out"),
    Exc("ConnectionError", "connection refused") }

FirstBodies ==
  { JDict([result |-> JDict([first_level_outline |-> JList(o)])]) : o \in Outlines }
  \cup { EmptyDict,
         JDict([result |-> EmptyDict]),
         JDict([result |-> JDict([first_level_outline |-> JNull])]),
         JDict([result |-> JNull]),
         EmptyList,
         JDict([error |-> JStr(<<"quota exceeded">>)]) }
FirstResponses == { Resp(HTTP_OK, TRUE, b, "") : b \in FirstBodies } \cup Failures

SecondBodies ==
  { JDict([result |-> JDict([second_level_outline |-> Sub1])]),
    JDict([result |-> JNull]),
    EmptyList }
SecondResponses == { Resp(HTTP_OK, TRUE, b, "") : b \in SecondBodies } \cup Failures

\* ------------------------------------------------------ pure functions
\* isinstance(e, cls) for the requests exception hierarchy
IsInstance(class, cls) ==
  \/ class = cls
  \/ cls = "RequestException" /\ class \in {"Timeout", "ConnectionError"}

ErrorValue(tokens) == JDict([error |-> JStr(tokens)])

\* variant: the except clauses in the other order, RequestException first
execute_interaction_ExceptOrder(r) ==
  IF r.kind = "response"
  THEN IF r.status_code = HTTP_OK
       THEN IF r.valid_json
            THEN [raised |-> FALSE, value |-> r.body]
            ELSE [raised |-> FALSE, value |-> ErrorValue(<<"Invalid JSON response">>)]
       ELSE [raised |-> FALSE,
             value |-> ErrorValue(<<"Error: ", StatusText(r.status_code), " - ", r.text>>)]
  ELSE IF IsInstance(r.class, "RequestException")
  THEN [raised |-> FALSE, value |-> ErrorValue(<<"An error occurred: ", r.text>>)]
  ELSE [raised |-> TRUE, value |-> JNull]

\* generate.py execute_interaction, given what the POST produced
execute_interaction(r) ==
  IF r.kind = "response"
  THEN IF r.status_code = HTTP_OK
       THEN IF r.valid_json
            THEN [raised |-> FALSE, value |-> r.body]
            ELSE [raised |-> FALSE, value |-> ErrorValue(<<"Invalid JSON response">>)]
       ELSE [raised |-> FALSE,
             value |-> ErrorValue(<<"Error: ", StatusText(r.status_code), " - ", r.text>>)]
  ELSE IF IsInstance(r.class, "Timeout")
  THEN [raised |-> FALSE,
        value |-> ErrorValue(<<"The request timed out. Try increasing the timeout duration.">>)]
  ELSE IF IsInstance(r.class, "RequestException")
  THEN [raised |-> FALSE, value |-> ErrorValue(<<"An error occurred: ", r.text>>)]
  ELSE [raised |-> TRUE, value |-> JNull]

Section(title, subs) == [title |-> title, subsections |-> subs]
NoSection == Section("", EmptyList)

\* variant: result["result"]["second_level_outline"], a KeyError on a missing key
call_second_outline_Subscript(outline_item, r) ==
  LET res == execute_interaction(r) IN
  IF res.raised THEN [exc |-> "Exception", section |-> NoSection]
  ELSE IF ~HasGet(res.value) THEN [exc |-> "TypeError", section |-> NoSection]
  ELSE IF "result" \notin DOMAIN res.value.v THEN [exc |-> "KeyError", section |-> NoSection]
  ELSE LET inner == res.value.v.result IN
       IF ~HasGet(inner) THEN [exc |-> "TypeError", section |-> NoSection]
       ELSE IF "second_level_outline" \notin DOMAIN inner.v
       THEN [exc |-> "KeyError", section |-> NoSection]
       ELSE [exc |-> "", section |-> Section(outline_item, inner.v.second_level_outline)]

\* generate.py call_second_outline: the worker of one outline item
call_second_outline(outline_item, r) ==
  LET res == execute_interaction(r) IN
  IF res.raised THEN [exc |-> "Exception", section |-> NoSection]
  ELSE IF ~HasGet(res.value) THEN [exc |-> "AttributeError", section |-> NoSection]
  ELSE LET inner == Get(res.value, "result", EmptyDict) IN
       IF ~HasGet(inner) THEN [exc |-> "AttributeError", section |-> NoSection]
       ELSE [exc |-> "",
             section |-> Section(outline_item, Get(inner, "second_level_outline", EmptyList))]

\* list.index: the first position holding x
IndexOf(seq, x) ==
  CHOOSE i \in 1..Len(seq) : seq[i] = x /\ \A j \in 1..(i - 1) : seq[j] # x

SortKey(outline, x) == IndexOf(outline, x.title)

\* the place a stable sort gives to element i: after every smaller key, and after the
\* equal keys that come before it
Rank(secs, outline, i) ==
  Cardinality({j \in 1..Len(secs) :
                 \/ SortKey(outline, secs[j]) < SortKey(outline, secs[i])
                 \/ SortKey(outline, secs[j]) = SortKey(outline, secs[i]) /\ j <= i})

\* sorted(sections, key=lambda x: first_level_outline.index(x["title"]))
sorted(secs, outline) ==
  [p \in 1..Len(secs) |-> secs[CHOOSE i \in 1..Len(secs) : Rank(secs, outline, i) = p]]

\* str.replace(old, new) on a string given as its pieces: every occurrence
Replace(s, old, new) == [i \in 1..Len(s) |-> IF s[i] = old THEN new ELSE s[i]]

\* os.path.splitext(os.path.basename(file_name))[0]: the last extension is dropped
IsExt(tok) == tok \in {".txt", ".docx"}
SplitextBase(name) ==
  IF Len(name) > 1 /\ IsExt(name[Len(name)]) THEN SubSeq(name, 1, Len(name) - 1) ELSE name

FileNames == {<<"notes", ".docx", ".txt">>}

RECURSIVE PointBlocks(_)
PointBlocks(content) ==
  IF content = <<>> THEN <<>>
  ELSE <<[style |-> "ListBullet", text |-> Head(content).v.point.v]>> \o PointBlocks(Tail(content))

RECURSIVE SubsectionBlocks(_)
SubsectionBlocks(subs) ==
  IF subs = <<>> THEN <<>>
  ELSE <<[style |-> "Heading2", text |-> Head(subs).v.title.v]>>
       \o PointBlocks(Head(subs).v.content.v) \o SubsectionBlocks(Tail(subs))

RECURSIVE SectionBlocks(_)
\* the body of the document: one heading per section, subsection and point
SectionBlocks(secs) ==
  IF secs = <<>> THEN <<>>
  ELSE <<[style |-> "Heading1", text |-> <<Head(secs).title>>]>>
       \o SubsectionBlocks(Head(secs).subsections.v) \o SectionBlocks(Tail(secs))

\* ------------------------------------------------------------------ state
VARIABLES
  pc,                  \* position of the main thread
  exit_status,         \* -1 while running, then the process's exit status
  stdout,              \* the lines printed so far
  base_file_name,
  first_sent,          \* number of first-stage POSTs made
  first_response,      \* what the first-stage POST produced
  result,              \* value returned by the first execute_interaction
  first_level_outline,
  fut,                 \* the futures, in submission order
  sent,                \* per outline position, number of second-stage POSTs made
  received,            \* per outline position, what its POST produced
  sections,            \* the aggregator's list, in collection order
  ordered_sections,
  main_sections,       \* what call_second_interaction_parallel returned to main
  doc,                 \* the saved document's blocks
  word_file_name,
  pdf_file_name,
  converter_runs,
  pdf_exists

vars == <<pc, exit_status, stdout, base_file_name, first_sent, first_response, result,
          first_level_outline, fut, sent, received, sections, ordered_sections,
          main_sections, doc, word_file_name, pdf_file_name, converter_runs, pdf_exists>>

NoResponse == [kind |-> "none", status_code |-> 0, valid_json |-> FALSE,
               body |-> JNull, text |-> "", class |-> "-"]
Future(state, exc, section) == [state |-> state, exc |-> exc, section |-> section]

N == Len(first_level_outline)
Running == {i \in 1..Len(fut) : fut[i].state = "RUNNING"}

Init ==
  /\ pc = "main"
  /\ exit_status = -1
  /\ stdout = <<>>
  /\ base_file_name = <<>>
  /\ first_sent = 0
  /\ first_response = NoResponse
  /\ result = JNull
  /\ first_level_outline = <<>>
  /\ fut = <<>>
  /\ sent = <<>>
  /\ received = <<>>
  /\ sections = <<>>
  /\ ordered_sections = <<>>
  /\ main_sections = <<>>
  /\ doc = <<>>
  /\ word_file_name = <<>>
  /\ pdf_file_name = <<>>
  /\ converter_runs = 0
  /\ pdf_exists = FALSE

aggVars == <<fut, sent, received, sections, ordered_sections>>
outVars == <<main_sections, doc, word_file_name, pdf_file_name, converter_runs, pdf_exists>>
firstVars == <<first_sent, first_response, result, first_level_outline>>

\* sys.exit(code) after printing line
Exit(line, code) ==
  /\ stdout' = Append(stdout, line)
  /\ exit_status' = code
  /\ pc' = "exited"

\* an exception nobody catches: traceback, exit status 1
Crash ==
  /\ exit_status' = 1
  /\ pc' = "crashed"
  /\ UNCHANGED stdout

\* __main__, lines 149-159: argument count, base file name
CheckArgs ==
  /\ pc = "main"
  /\ \E argc \in ArgCounts, file_name \in FileNames :
       IF argc # ExpectedArgc
       THEN /\ Exit(<<"Usage">>, 1)
            /\ UNCHANGED base_file_name
       ELSE /\ base_file_name' = SplitextBase(file_name)
            /\ pc' = "read"
            /\ UNCHANGED <<exit_status, stdout>>
  /\ UNCHANGED <<firstVars, aggVars, outVars>>

\* read_file_as_json
ReadFile ==
  /\ pc = "read"
  /\ \E found \in BOOLEAN :
       IF found
       THEN /\ pc' = "first"
            /\ UNCHANGED <<exit_status, stdout>>
       ELSE Exit(<<"Error: The file was not found.">>, 1)
  /\ UNCHANGED <<base_file_name, firstVars, aggVars, outVars>>

\* __main__, line 165: the first-stage call
FirstCall ==
  /\ pc = "first"
  /\ \E r \in FirstResponses :
       /\ first_response' = r
       /\ first_sent' = first_sent + 1
       /\ IF execute_interaction(r).raised
          THEN Crash /\ UNCHANGED result
          ELSE /\ result' = execute_interaction(r).value
               /\ pc' = "check"
               /\ UNCHANGED <<exit_status, stdout>>
  /\ UNCHANGED <<base_file_name, first_level_outline, aggVars, outVars>>

\* variant: the error check is skipped
HasError_Never(res) == FALSE

\* line 168: "error" in result (key membership on a dict, element membership on a list)
HasError(res) == res.t = "dict" /\ "error" \in DOMAIN res.v

\* __main__, lines 168-176
CheckResult ==
  /\ pc = "check"
  /\ IF HasError(result)
     THEN Exit(result.v.error.v, 1) /\ UNCHANGED first_level_outline
     ELSE IF ~HasGet(result) \/ ~HasGet(Get(result, "result", EmptyDict))
     THEN Crash /\ UNCHANGED first_level_outline
     ELSE LET outline == Get(Get(result, "result", EmptyDict), "first_level_outline", EmptyList)
          IN IF ~Truthy(outline)
             THEN /\ stdout' = Append(stdout, <<"No first level outline found.">>)
                  /\ exit_status' = 0
                  /\ pc' = "done"
                  /\ UNCHANGED first_level_outline
             ELSE /\ first_level_outline' = outline.v
                  /\ pc' = "aggregate"
                  /\ UNCHANGED <<exit_status, stdout>>
  /\ UNCHANGED <<base_file_name, first_sent, first_response, result, aggVars, outVars>>

\* line 73: executor.submit for the next outline item
Submit ==
  /\ pc = "aggregate"
  /\ Len(fut) < N
  /\ fut' = Append(fut, Future("PENDING", "", NoSection))
  /\ sent' = Append(sent, 0)
  /\ received' = Append(received, NoResponse)
  /\ UNCHANGED <<pc, exit_status, stdout, base_file_name, firstVars, sections,
                 ordered_sections, outVars>>

\* a pool thread takes the oldest queued task and sends its request
Start(i) ==
  /\ i \in 1..Len(fut)
  /\ fut[i].state = "PENDING"
  /\ \A j \in 1..(i - 1) : fut[j].state # "PENDING"
  /\ Cardinality(Running) < MaxWorkers
  /\ fut' = [fut EXCEPT ![i].state = "RUNNING"]
  /\ sent' = [sent EXCEPT ![i] = @ + 1]
  /\ UNCHANGED <<pc, exit_status, stdout, base_file_name, firstVars, received, sections,
                 ordered_sections, outVars>>

IsFailure(r) ==
  \/ r.kind = "exception"
  \/ r.kind = "response" /\ (r.status_code # HTTP_OK \/ ~r.valid_json)

\* variant: a failed request is queued again once
Complete_Retry(i) ==
  /\ i \in 1..Len(fut)
  /\ fut[i].state = "RUNNING"
  /\ \E r \in SecondResponses :
       LET out == call_second_outline(first_level_outline[i], r) IN
       /\ received' = [received EXCEPT ![i] = r]
       /\ fut' = IF IsFailure(r) /\ sent[i] < 2
                 THEN [fut EXCEPT ![i].state = "PENDING"]
                 ELSE [fut EXCEPT ![i] = Future("FINISHED", out.exc, out.section)]
  /\ UNCHANGED <<pc, exit_status, stdout, base_file_name, firstVars, sent, sections,
                 ordered_sections, outVars>>

\* the request of task i ends with one of the given outcomes; call_second_outline
\* returns or raises
CompleteWith(i, responses) ==
  /\ i \in 1..Len(fut)
  /\ fut[i].state = "RUNNING"
  /\ \E r \in responses :
       LET out == call_second_outline(first_level_outline[i], r) IN
       /\ received' = [received EXCEPT ![i] = r]
       /\ fut' = [fut EXCEPT ![i] = Future("FINISHED", out.exc, out.section)]
  /\ UNCHANGED <<pc, exit_status, stdout, base_file_name, firstVars, sent, sections,
                 ordered_sections, outVars>>

Complete(i) == CompleteWith(i, SecondResponses)

\* lines 75-81: as_completed yields a finished future
Collect(i) ==
  /\ pc = "aggregate"
  /\ Len(fut) = N
  /\ i \in 1..Len(fut)
  /\ fut[i].state = "FINISHED"
  /\ fut' = [fut EXCEPT ![i].state = "YIELDED"]
  /\ IF fut[i].exc = ""
     THEN /\ sections' = Append(sections, fut[i].section)
          /\ UNCHANGED stdout
     ELSE /\ stdout' = Append(stdout, <<"Error occurred while processing outline ",
                                        first_level_outline[i], ": ", fut[i].exc>>)
          /\ UNCHANGED sections
  /\ UNCHANGED <<pc, exit_status, base_file_name, firstVars, sent, received,
                 ordered_sections, outVars>>

\* variant: the wait ends with the first future yielded
AllYielded_Any == \E i \in 1..Len(fut) : fut[i].state = "YIELDED"

\* as_completed is exhausted and the pool's shutdown(wait=True) has returned
AllYielded == \A i \in 1..Len(fut) : fut[i].state = "YIELDED"

\* line 84, after the with block
Sort ==
  /\ pc = "aggregate"
  /\ Len(fut) = N
  /\ AllYielded
  /\ ordered_sections' = sorted(sections, first_level_outline)
  /\ pc' = "sorted"
  /\ UNCHANGED <<exit_status, stdout, base_file_name, firstVars, fut, sent, received,
                 sections, outVars>>

\* line 85: the aggregator returns; its locals are gone
Return ==
  /\ pc = "sorted"
  /\ main_sections' = ordered_sections
  /\ fut' = <<>>
  /\ received' = <<>>
  /\ sections' = <<>>
  /\ ordered_sections' = <<>>
  /\ pc' = "document"
  /\ UNCHANGED <<exit_status, stdout, base_file_name, firstVars, sent, doc, word_file_name,
                 pdf_file_name, converter_runs, pdf_exists>>

\* create_word_document
CreateDoc ==
  /\ pc = "document"
  /\ doc' = <<[style |-> "Normal", text |-> <<"Table of Contents">>],
              [style |-> "Normal", text |-> <<"TOC">>]>> \o SectionBlocks(main_sections)
  /\ word_file_name' = base_file_name \o <<"_", "TS", ".docx">>
  /\ stdout' = Append(stdout, <<"Document created successfully.">>)
  /\ pc' = "convert"
  /\ UNCHANGED <<exit_status, base_file_name, firstVars, aggVars, main_sections,
                 pdf_file_name, converter_runs, pdf_exists>>

ConverterOutcomes == {"ok", "CalledProcessError", "FileNotFoundError"}

\* variant: only subprocess.CalledProcessError is caught
convert_to_pdf_CalledProcessError(name, outcome) ==
  [raised |-> (outcome = "FileNotFoundError"),
   value |-> Replace(name, ".docx", ".pdf"),
   line |-> IF outcome = "ok" THEN <<"PDF created successfully.">>
            ELSE <<"Error during PDF conversion: ", outcome>>]

\* convert_to_pdf, given how the subprocess call ended
convert_to_pdf(name, outcome) ==
  [raised |-> FALSE,
   value |-> Replace(name, ".docx", ".pdf"),
   line |-> IF outcome = "ok" THEN <<"PDF created successfully.">>
            ELSE <<"Error during PDF conversion: ", outcome>>]

\* __main__, line 187
Convert ==
  /\ pc = "convert"
  /\ \E outcome \in ConverterOutcomes :
       LET c == convert_to_pdf(word_file_name, outcome) IN
       /\ converter_runs' = converter_runs + 1
       /\ pdf_exists' = (outcome = "ok")
       /\ IF c.raised
          THEN Crash /\ UNCHANGED pdf_file_name
          ELSE /\ stdout' = Append(stdout, c.line)
               /\ pdf_file_name' = c.value
               /\ exit_status' = 0
               /\ pc' = "done"
  /\ UNCHANGED <<base_file_name, firstVars, aggVars, main_sections, doc, word_file_name>>

Next ==
  \/ CheckArgs
  \/ ReadFile
  \/ FirstCall
  \/ CheckResult
  \/ Submit
  \/ \E i \in 1..MaxOutline : Start(i)
  \/ \E i \in 1..MaxOutline : Complete(i)
  \/ \E i \in 1..MaxOutline : Collect(i)
  \/ Sort
  \/ Return
  \/ CreateDoc
  \/ Convert

Spec == Init /\ [][Next]_vars


\* Some thread always gets to run: the main thread and the pool's threads are never
\* all held back while one of them has a step to take, and each request ends (with a
\* response, or with the Timeout that timeout=120 raises).
\* For progress the kind of answer a request gets does not matter, only that it ends:
\* one answer with subsections, one that makes the worker raise, one error value.
LiveResponses ==
  { Resp(HTTP_OK, TRUE, JDict([result |-> JDict([second_level_outline |-> Sub1])]), ""),
    Resp(HTTP_OK, TRUE, JDict([result |-> JNull]), ""),
    Exc("Timeout", "read timed out") }

LiveComplete(i) == CompleteWith(i, LiveResponses)

LiveNext ==
  \/ CheckArgs
  \/ ReadFile
  \/ FirstCall
  \/ CheckResult
  \/ Submit
  \/ \E i \in 1..MaxOutline : Start(i)
  \/ \E i \in 1..MaxOutline : LiveComplete(i)
  \/ \E i \in 1..MaxOutline : Collect(i)
  \/ Sort
  \/ Return
  \/ CreateDoc
  \/ Convert

FairSpec == Init /\ [][LiveNext]_vars /\ WF_vars(LiveNext)

\* ------------------------------------------------- vocabulary of the claims
Is200Json(r) == r.kind = "response" /\ r.status_code = HTTP_OK /\ r.valid_json

\* the error text each failure of the POST is documented to give
FailureMessage(r) ==
  IF r.kind = "response" /\ r.status_code # HTTP_OK
  THEN <<"Error: ", StatusText(r.status_code), " - ", r.text>>
  ELSE IF r.kind = "response" THEN <<"Invalid JSON response">>
  ELSE IF r.class = "Timeout"
  THEN <<"The request timed out. Try increasing the timeout duration.">>
  ELSE <<"An error occurred: ", r.text>>

FailureClass(r) ==
  IF r.kind = "response" /\ r.status_code # HTTP_OK THEN "status"
  ELSE IF r.kind = "response" THEN "json"
  ELSE IF r.class = "Timeout" THEN "timeout" ELSE "transport"

\* the failure an error value names, read from the start of its text
ErrorClass(val) ==
  IF val.t # "dict" \/ "error" \notin DOMAIN val.v THEN "none"
  ELSE LET head == val.v.error.v[1] IN
       IF head = "Error: " THEN "status"
       ELSE IF head = "Invalid JSON response" THEN "json"
       ELSE IF head = "The request timed out. Try increasing the timeout duration."
       THEN "timeout"
       ELSE IF head = "An error occurred: " THEN "transport" ELSE "none"

Raisers == {i \in 1..Len(fut) : fut[i].exc # ""}
NoWorkerRaised == Raisers = {}
InFlight == {i \in 1..Len(fut) : fut[i].state \in {"PENDING", "RUNNING"}}
TitlesOf(secs) == [k \in 1..Len(secs) |-> secs[k].title]
AfterFirstCheck == pc \notin {"main", "read", "first", "check"}
NoFurtherWork ==
  /\ fut = <<>> /\ sent = <<>> /\ sections = <<>> /\ main_sections = <<>>
  /\ doc = <<>> /\ word_file_name = <<>> /\ pdf_file_name = <<>>
  /\ converter_runs = 0 /\ ~pdf_exists

RECURSIVE SurvivorsUpTo(_)
\* the sections the futures 1..n hold, by outline position, without the raising ones
SurvivorsUpTo(n) ==
  IF n = 0 THEN <<>>
  ELSE SurvivorsUpTo(n - 1) \o (IF fut[n].exc = "" THEN <<fut[n].section>> ELSE <<>>)

\* ------------------------------------------------------------------ claims

\* C1 as stated, for the runs in which every one of the N calls returns a section:
\* whatever the completion order, the titles of the returned sections are the
\* first-level outline, in its order.
C1_TitlesEqualOutline ==
  (pc = "sorted" /\ NoWorkerRaised) => TitlesOf(ordered_sections) = first_level_outline

\* C2: a second-stage call whose execute_interaction returned an error value does not
\* raise and yields the section of its item with no subsections; that section is in
\* the aggregate; when no worker raised the aggregate has N sections; and nothing in
\* the aggregation aborts the run.
C2_ErrorValueTolerated ==
  /\ \A i \in 1..Len(fut) :
       (fut[i].state \in {"FINISHED", "YIELDED"} /\ IsFailure(received[i]))
         => /\ fut[i].exc = ""
            /\ fut[i].section = Section(first_level_outline[i], EmptyList)
  /\ pc = "sorted" =>
       /\ \A i \in 1..N : IsFailure(received[i]) =>
            \E k \in 1..Len(ordered_sections) :
              ordered_sections[k] = Section(first_level_outline[i], EmptyList)
       /\ NoWorkerRaised => Len(ordered_sections) = N
  /\ pc \in {"crashed", "exited"} => first_level_outline = <<>>

C2_Witness ==
  /\ pc = "sorted" /\ N >= 2 /\ NoWorkerRaised
  /\ \E i, j \in 1..N : /\ FailureClass(received[i]) = "timeout" /\ IsFailure(received[i])
                        /\ FailureClass(received[j]) = "status" /\ IsFailure(received[j])
  /\ Len(ordered_sections) = N

\* C3: once the first-stage call has given an error value, the run has printed the
\* error text and exited with status 1, and no second-stage call, document or
\* conversion exists.
C3_FirstStageErrorIsFatal ==
  /\ (AfterFirstCheck /\ IsFailure(first_response)) =>
       /\ pc = "exited" /\ exit_status = 1
       /\ stdout = << FailureMessage(first_response) >>
       /\ first_sent = 1 /\ NoFurtherWork
  /\ (AfterFirstCheck /\ Is200Json(first_response) /\ first_response.body.t = "dict"
        /\ "error" \in DOMAIN first_response.body.v) =>
       /\ pc = "exited" /\ exit_status = 1
       /\ stdout = << first_response.body.v.error.v >>
       /\ first_sent = 1 /\ NoFurtherWork

C3_Witness ==
  /\ pc = "exited" /\ exit_status = 1
  /\ first_response.kind = "response" /\ first_response.status_code = 500
  /\ stdout = << <<"Error: ", "500", " - ", "oops">> >>

\* the first-stage bodies whose first-level outline is empty or absent
EmptyOutlineBodies ==
  { EmptyDict,
    JDict([result |-> EmptyDict]),
    JDict([result |-> JDict([first_level_outline |-> JNull])]),
    JDict([result |-> JDict([first_level_outline |-> EmptyList])]) }

\* C4: once a successful first-stage call has given an outline with no items, the run
\* has printed the 'no outline' line and ended, with no second-stage call, document
\* or conversion.
C4_EmptyOutlineEndsRun ==
  (AfterFirstCheck /\ Is200Json(first_response) /\ first_response.body \in EmptyOutlineBodies)
    => /\ pc = "done" /\ exit_status = 0
       /\ stdout = << <<"No first level outline found.">> >>
       /\ first_level_outline = <<>> /\ NoFurtherWork

C4_Witness ==
  /\ pc = "done"
  /\ first_response.body = JDict([result |-> JDict([first_level_outline |-> EmptyList])])
  /\ Is200Json(first_response)
  /\ stdout = << <<"No first level outline found.">> >>

\* C5: the first-stage request is sent at most once, no outline position gets more
\* than one second-stage request, and when the aggregation is over every one of the N
\* positions has had exactly one.
C5_EachCallOnce ==
  /\ first_sent <= 1
  /\ Len(sent) <= N
  /\ \A i \in 1..Len(sent) : sent[i] <= 1
  /\ (pc \in {"sorted", "document", "convert"} \/ (pc = "done" /\ N > 0)) =>
       /\ Len(sent) = N
       /\ \A i \in 1..N : sent[i] = 1
       /\ first_sent = 1

C5_Witness ==
  /\ pc = "sorted" /\ N >= 3
  /\ \E i \in 1..N : IsFailure(received[i])
  /\ \A i \in 1..N : sent[i] = 1

\* C6: the aggregator only gets past its wait when every one of the N futures has
\* been yielded, no call is in flight outside the aggregation, and an aggregation
\* whose calls all end does reach its sort.
C6_WaitsForAll ==
  /\ [](pc = "sorted" => (Len(fut) = N /\ \A i \in 1..N : fut[i].state = "YIELDED" /\ sent[i] = 1))
  /\ [](pc # "aggregate" => InFlight = {})
  /\ ((pc = "aggregate") ~> (pc = "sorted"))

C6_Witness ==
  /\ pc = "aggregate" /\ N >= 3 /\ Len(fut) = N
  /\ \E i, j \in 1..N : fut[i].state = "YIELDED" /\ fut[j].state = "RUNNING"

\* C7 as stated: when some worker raised, the failure is logged and the aggregate is
\* exactly the sections of the other items, in outline order, N minus the number of
\* raising workers of them.
C7_OnlyRaisersOmitted ==
  (pc = "sorted" /\ ~NoWorkerRaised) =>
    /\ ordered_sections = SurvivorsUpTo(N)
    /\ Len(ordered_sections) = N - Cardinality(Raisers)
    /\ Len(stdout) = Cardinality(Raisers)

\* C8: once the converter has been run, whatever its outcome, the run has ended
\* normally with exit status 0 and convert_to_pdf has returned a .pdf name; a failed
\* conversion leaves no PDF and a logged line.
C8_ConvertNeverRaises ==
  converter_runs > 0 =>
    /\ converter_runs = 1 /\ pc = "done" /\ exit_status = 0
    /\ Len(pdf_file_name) = Len(word_file_name)
    /\ pdf_file_name[Len(pdf_file_name)] = ".pdf"
    /\ \A k \in 1..Len(pdf_file_name) : pdf_file_name[k] # ".docx"
    /\ pdf_exists <=> stdout[Len(stdout)] = <<"PDF created successfully.">>
    /\ ~pdf_exists => stdout[Len(stdout)][1] = "Error during PDF conversion: "

C8_Witness ==
  /\ pc = "done" /\ converter_runs = 1 /\ ~pdf_exists
  /\ stdout[Len(stdout)] = <<"Error during PDF conversion: ", "FileNotFoundError">>
  /\ pdf_file_name = <<"notes", ".pdf", "_", "TS", ".pdf">>

\* C9: the first-stage execute_interaction never raises; a 200 response with valid
\* JSON gives the decoded body; each failure gives its own error value, from which
\* the kind of failure can be told.
C9_EveryOutcomeMapped ==
  first_sent = 1 =>
    /\ pc = "crashed" => Is200Json(first_response)
    /\ Is200Json(first_response) => result = first_response.body
    /\ IsFailure(first_response) =>
         /\ result = ErrorValue(FailureMessage(first_response))
         /\ ErrorClass(result) = FailureClass(first_response)

C9_Witness ==
  /\ pc = "check"
  /\ first_response.class = "Timeout"
  /\ ErrorClass(result) = "timeout"

\* C10 as stated: when no worker raised, the returned sequence is, position by
\* position, the section of the call issued for that outline position, whatever the
\* completion order.
C10_SectionsByPosition ==
  (pc = "sorted" /\ NoWorkerRaised) => ordered_sections = SurvivorsUpTo(N)

====
